---------------------------- MODULE Spec2Model ----------------------------
(***************************************************************************)
(* Model of fire-calculator.py: the expense aggregation (lines 61-82),     *)
(* the FIRE-number and future-expense helpers (lines 85-100) and the       *)
(* year-by-year projection (lines 156-194).                                *)
(*                                                                         *)
(* The script is straight-line code that Streamlit runs top to bottom;     *)
(* pc is the position of that run.  Python numbers are modelled as exact   *)
(* rationals [n |-> numerator, d |-> denominator] in lowest terms, so the  *)
(* arithmetic is that of the formulas without binary rounding.             *)
(***************************************************************************)
EXTENDS Integers, Sequences, FiniteSets, TLC

(* ------------------------------ bounds -------------------------------- *)

\* Largest years_until_retirement explored.
MaxHorizon == 3

(* ------------------------ exact rational numbers ----------------------- *)

RECURSIVE GCD(_, _)
GCD(a, b) == IF b = 0 THEN a ELSE GCD(b, a % b)

\* The rational num/den in lowest terms (den > 0, num >= 0).
Frac(num, den) ==
    CHOOSE f \in { [n |-> p \div GCD(p, q), d |-> q \div GCD(p, q)] :
                   p \in {num}, q \in {den} } : TRUE

\* A Python int used in float arithmetic.
R(i) == [n |-> i, d |-> 1]

\* The operators below bind each operand once (x \in {a}) before using it.

\* a + b
RAdd(a, b) ==
    CHOOSE r \in { Frac(x.n * (y.d \div GCD(x.d, y.d)) + y.n * (x.d \div GCD(x.d, y.d)),
                        (x.d \div GCD(x.d, y.d)) * y.d) :
                   x \in {a}, y \in {b} } : TRUE

\* a * b
RMul(a, b) ==
    CHOOSE r \in { [n |-> (x.n \div GCD(x.n, y.d)) * (y.n \div GCD(y.n, x.d)),
                    d |-> (x.d \div GCD(y.n, x.d)) * (y.d \div GCD(x.n, y.d))] :
                   x \in {a}, y \in {b} } : TRUE

\* The exception object a division by zero raises.
ZeroDivisionError == [exc |-> "ZeroDivisionError"]

IsException(v) == "exc" \in DOMAIN v

\* a / b : true division; raises ZeroDivisionError when b is zero.
RDiv(a, b) ==
    CHOOSE r \in { IF y.n = 0 THEN ZeroDivisionError
                   ELSE RMul(x, [n |-> y.d, d |-> y.n]) :
                   x \in {a}, y \in {b} } : TRUE

\* a ** k for a non-negative integer k (x ** 0 is 1).
RECURSIVE RPow(_, _)
RPow(a, k) == IF k = 0 THEN R(1) ELSE RMul(a, RPow(a, k - 1))

\* a >= b
RGeq(a, b) ==
    \E x \in {a}, y \in {b} :
        x.n * (y.d \div GCD(x.d, y.d)) >= y.n * (x.d \div GCD(x.d, y.d))

(* ------------------------------ inputs -------------------------------- *)

\* Values the sidebar widgets (lines 18-59) can return, a few per widget.
\* Amounts are in thousands of rupees.
Ages               == {28}
SavingsValues      == {0, 1000}
IncomeValues       == {22}
SavingsRates       == {50}
ReturnValues       == {10}
MonthlyExpenses    == {0, 1}
ExpenseInflations  == {5, 10}
TripCounts         == {0, 1}
TripBudgets        == {12}
TripInflations     == {10}
CarYears           == {1, 2}
CarCosts           == {0, 24}
CarInflations      == {5, 10}
GadgetYears        == {1}
GadgetCosts        == {0, 12}
GadgetInflations   == {5}
DependentCounts    == {0, 1}
DependentCosts     == {12}
DependentInflations == {10}
MiscMonthlies      == {0, 1}
MiscInflations     == {5}
SwrValues          == {R(4), R(5)}

VARIABLES
    pc, raised,
    \* sidebar inputs
    current_age, retirement_age, years_until_retirement,
    current_savings, monthly_income, savings_rate, annual_investment_return,
    monthly_expense, expense_inflation,
    trips_per_year, trip_budget, trip_inflation,
    car_upgrade_years, car_cost, car_inflation,
    gadget_upgrade_years, gadget_cost, gadget_inflation,
    num_dependents, dependent_cost, dependent_inflation,
    misc_monthly, misc_inflation,
    swr,
    \* module-level results
    annual_expense, annual_trips, car_annual, gadget_annual,
    dependent_annual, misc_annual,
    total_annual_cost, weighted_inflation,
    retirement_annual_expenses, fire_number,
    \* calculate_fire_projection
    annual_saving, years, age, savings, annual_expenses, fire_numbers,
    fire_achieved, fire_year

inputs ==
    << current_age, retirement_age, years_until_retirement,
       current_savings, monthly_income, savings_rate, annual_investment_return,
       monthly_expense, expense_inflation,
       trips_per_year, trip_budget, trip_inflation,
       car_upgrade_years, car_cost, car_inflation,
       gadget_upgrade_years, gadget_cost, gadget_inflation,
       num_dependents, dependent_cost, dependent_inflation,
       misc_monthly, misc_inflation, swr >>

annualized ==
    << annual_expense, annual_trips, car_annual, gadget_annual,
       dependent_annual, misc_annual, total_annual_cost, weighted_inflation >>

retirement == << retirement_annual_expenses, fire_number >>

projection ==
    << annual_saving, years, age, savings, annual_expenses, fire_numbers,
       fire_achieved, fire_year >>

vars == << pc, raised, inputs, annualized, retirement, projection >>

\* A float name the script has not assigned yet.
Unset == [unset |-> TRUE]

\* Python's None for fire_year: distinct from every list index.
None == 0 - 1

(* --------------------------- pure functions --------------------------- *)

\* Mutant: a guarded division that answers 0 for a zero rate.
calculate_fire_number_guarded(annual_expenses_arg, swr_arg) ==
    IF swr_arg.n = 0 THEN R(0)
    ELSE RMul(annual_expenses_arg, RDiv(R(100), swr_arg))

\* line 85-86
calculate_fire_number(annual_expenses_arg, swr_arg) ==
    LET factor == RDiv(R(100), swr_arg)
    IN  IF IsException(factor) THEN factor
        ELSE RMul(annual_expenses_arg, factor)

\* One term of lines 89-94: amount * ((1 + rate/100) ** years_arg)
Compound(amount, rate, years_arg) ==
    RMul(amount, RPow(RAdd(R(1), RDiv(R(rate), R(100))), years_arg))

\* Mutant: the blended rate substituted for the per-category rates.
calculate_future_expenses_blended(years_arg) ==
    RMul(total_annual_cost,
         RPow(RAdd(R(1), RDiv(weighted_inflation, R(100))), years_arg))

\* Mutant: every category compounded with the living-expense rate.
calculate_future_expenses_one_rate(years_arg) ==
    RAdd(RAdd(RAdd(RAdd(RAdd(
        Compound(annual_expense, expense_inflation, years_arg),
        Compound(annual_trips, expense_inflation, years_arg)),
        Compound(car_annual, expense_inflation, years_arg)),
        Compound(gadget_annual, expense_inflation, years_arg)),
        Compound(dependent_annual, expense_inflation, years_arg)),
        Compound(misc_annual, expense_inflation, years_arg))

\* line 88-96; reads the module-level annualized amounts and rates
calculate_future_expenses(years_arg) ==
    LET future_expense   == Compound(annual_expense, expense_inflation, years_arg)
        future_trips     == Compound(annual_trips, trip_inflation, years_arg)
        future_car       == Compound(car_annual, car_inflation, years_arg)
        future_gadget    == Compound(gadget_annual, gadget_inflation, years_arg)
        future_dependent == Compound(dependent_annual, dependent_inflation, years_arg)
        future_misc      == Compound(misc_annual, misc_inflation, years_arg)
    IN  RAdd(RAdd(RAdd(RAdd(RAdd(future_expense, future_trips), future_car),
                       future_gadget), future_dependent), future_misc)

\* list.index(v): the first 0-based position holding v (line 184)
RECURSIVE IndexFrom(_, _, _)
IndexFrom(list, v, i) ==
    IF list[i + 1] = v THEN i ELSE IndexFrom(list, v, i + 1)

\* Mutant: the last position holding v.
IndexLast(list, v) ==
    CHOOSE i \in 0..(Len(list) - 1) :
        /\ list[i + 1] = v
        /\ \A j \in (i + 1)..(Len(list) - 1) : list[j + 1] # v

Index(list, v) == IndexFrom(list, v, 0)

\* v in list (line 183)
Contains(list, v) == \E i \in 1..Len(list) : list[i] = v

(* ------------------------------- Init --------------------------------- *)

\* The script starts; no name is assigned yet.
Init ==
    /\ pc = "start"
    /\ raised = ""
    /\ current_age = 0 /\ retirement_age = 0 /\ years_until_retirement = 0
    /\ current_savings = 0 /\ monthly_income = 0 /\ savings_rate = 0
    /\ annual_investment_return = 0
    /\ monthly_expense = 0 /\ expense_inflation = 0
    /\ trips_per_year = 0 /\ trip_budget = 0 /\ trip_inflation = 0
    /\ car_upgrade_years = 0 /\ car_cost = 0 /\ car_inflation = 0
    /\ gadget_upgrade_years = 0 /\ gadget_cost = 0 /\ gadget_inflation = 0
    /\ num_dependents = 0 /\ dependent_cost = 0 /\ dependent_inflation = 0
    /\ misc_monthly = 0 /\ misc_inflation = 0
    /\ swr = Unset
    /\ annual_expense = Unset /\ annual_trips = Unset /\ car_annual = Unset
    /\ gadget_annual = Unset /\ dependent_annual = Unset /\ misc_annual = Unset
    /\ total_annual_cost = Unset /\ weighted_inflation = Unset
    /\ retirement_annual_expenses = Unset /\ fire_number = Unset
    /\ annual_saving = Unset
    /\ years = << >> /\ age = << >> /\ savings = << >>
    /\ annual_expenses = << >> /\ fire_numbers = << >> /\ fire_achieved = << >>
    /\ fire_year = None

(* ------------------------------ actions ------------------------------- *)

\* line 70
TotalAnnualCost(ae, at, ca, ga, da, ma) ==
    RAdd(RAdd(RAdd(RAdd(RAdd(ae, at), ca), ga), da), ma)

\* Mutant: the plain mean of the six rates, not weighted by amount.
WeightedInflationUnweighted(ae, at, ca, ga, da, ma, total) ==
    IF total.n > 0
    THEN RDiv(R(expense_inflation + trip_inflation + car_inflation
                + gadget_inflation + dependent_inflation + misc_inflation), R(6))
    ELSE R(4)

\* lines 72-82
WeightedInflation(ae, at, ca, ga, da, ma, total) ==
    IF total.n > 0
    THEN RDiv(RAdd(RAdd(RAdd(RAdd(RAdd(
                 RMul(ae, R(expense_inflation)),
                 RMul(at, R(trip_inflation))),
                 RMul(ca, R(car_inflation))),
                 RMul(ga, R(gadget_inflation))),
                 RMul(da, R(dependent_inflation))),
                 RMul(ma, R(misc_inflation))),
              total)
    ELSE R(4)

\* lines 18-59: the widgets return the user's values; line 20 derives the
\* horizon.  The retirement-age widget has min_value = current_age.
ReadWidgets(swrChoices) ==
    /\ pc = "start"
    /\ current_age' \in Ages
    /\ \E horizon \in 0..MaxHorizon :
          /\ retirement_age' = current_age' + horizon
          /\ years_until_retirement' = retirement_age' - current_age'
    /\ current_savings' \in SavingsValues
    /\ monthly_income' \in IncomeValues
    /\ savings_rate' \in SavingsRates
    /\ annual_investment_return' \in ReturnValues
    /\ monthly_expense' \in MonthlyExpenses
    /\ expense_inflation' \in ExpenseInflations
    /\ trips_per_year' \in TripCounts
    /\ trip_budget' \in TripBudgets
    /\ trip_inflation' \in TripInflations
    /\ car_upgrade_years' \in CarYears
    /\ car_cost' \in CarCosts
    /\ car_inflation' \in CarInflations
    /\ gadget_upgrade_years' \in GadgetYears
    /\ gadget_cost' \in GadgetCosts
    /\ gadget_inflation' \in GadgetInflations
    /\ num_dependents' \in DependentCounts
    /\ dependent_cost' \in DependentCosts
    /\ dependent_inflation' \in DependentInflations
    /\ misc_monthly' \in MiscMonthlies
    /\ misc_inflation' \in MiscInflations
    /\ swr' \in swrChoices
    /\ pc' = "inputs"
    /\ UNCHANGED << raised, annualized, retirement, projection >>

\* swr comes from the slider of line 59.
ReadInputs == ReadWidgets(SwrValues)

\* swr reaches the calculation unvalidated, zero included.
ReadInputsUnchecked == ReadWidgets(SwrValues \cup {R(0)})

\* lines 62-82: annualize the categories, total them, blend their rates
Aggregate ==
    /\ pc = "inputs"
    /\ annual_expense' = R(monthly_expense * 12)
    /\ annual_trips' = R(trips_per_year * trip_budget)
    /\ car_annual' = RDiv(R(car_cost), R(car_upgrade_years))
    /\ gadget_annual' = RDiv(R(gadget_cost), R(gadget_upgrade_years))
    /\ dependent_annual' = R(num_dependents * dependent_cost)
    /\ misc_annual' = R(misc_monthly * 12)
    /\ total_annual_cost' =
          TotalAnnualCost(annual_expense', annual_trips', car_annual',
                          gadget_annual', dependent_annual', misc_annual')
    /\ weighted_inflation' =
          WeightedInflation(annual_expense', annual_trips', car_annual',
                            gadget_annual', dependent_annual', misc_annual',
                            total_annual_cost')
    /\ pc' = "aggregated"
    /\ UNCHANGED << raised, inputs, retirement, projection >>

\* lines 99-100: expenses and FIRE number at the retirement age
RetirementNumber ==
    /\ pc = "aggregated"
    /\ retirement_annual_expenses' = calculate_future_expenses(years_until_retirement)
    /\ LET fn == calculate_fire_number(retirement_annual_expenses', swr)
       IN  IF IsException(fn)
           THEN /\ raised' = fn.exc
                /\ pc' = "raised"
                /\ UNCHANGED fire_number
           ELSE /\ fire_number' = fn
                /\ pc' = "retirement"
                /\ UNCHANGED raised
    /\ UNCHANGED << inputs, annualized, projection >>

\* lines 157-158
AnnualSaving ==
    RMul(RMul(R(monthly_income), RDiv(R(savings_rate), R(100))), R(12))

\* Mutant: the first point takes the FIRE number of the retirement year.
InitialFireNumberAtRetirement ==
    calculate_fire_number(retirement_annual_expenses, swr)

\* line 165
InitialFireNumber == calculate_fire_number(total_annual_cost, swr)

\* line 166
InitialFireAchieved == << FALSE >>

\* lines 157-166: calculate_fire_projection up to the loop
ProjectionInit ==
    /\ pc = "retirement"
    /\ annual_saving' = AnnualSaving
    /\ years' = [i \in 1..(years_until_retirement + 1) |-> i - 1]
    /\ age' = [i \in 1..(years_until_retirement + 1) |-> current_age + years'[i]]
    /\ savings' = << R(current_savings) >>
    /\ annual_expenses' = << total_annual_cost >>
    /\ LET fn == InitialFireNumber
       IN  IF IsException(fn)
           THEN /\ raised' = fn.exc
                /\ pc' = "raised"
                /\ UNCHANGED << fire_numbers, fire_achieved >>
           ELSE /\ fire_numbers' = << fn >>
                /\ fire_achieved' = InitialFireAchieved
                /\ pc' = "loop"
                /\ UNCHANGED raised
    /\ UNCHANGED << inputs, annualized, retirement, fire_year >>

\* Mutant: the loop breaks once FIRE is achieved.
LoopContinuesUntilAchieved ==
    /\ Len(savings) <= years_until_retirement
    /\ ~fire_achieved[Len(fire_achieved)]

\* line 168: range(1, years_until_retirement + 1) has a next year
LoopContinues == Len(savings) <= years_until_retirement

\* Mutant: the contribution is added before the year's return is applied.
NewSavingsContributionFirst(prev) ==
    RMul(RAdd(prev, annual_saving),
         RAdd(R(1), RDiv(R(annual_investment_return), R(100))))

\* line 170
NewSavings(prev) ==
    RAdd(RMul(prev, RAdd(R(1), RDiv(R(annual_investment_return), R(100)))),
         annual_saving)

\* lines 168-179: one iteration of the projection loop
ProjectionStep ==
    /\ pc = "loop"
    /\ LoopContinues
    /\ LET year == Len(savings)
           new_savings == NewSavings(savings[Len(savings)])
           new_expense == calculate_future_expenses(year)
           new_fire_number == calculate_fire_number(new_expense, swr)
       IN  IF IsException(new_fire_number)
           THEN /\ raised' = new_fire_number.exc
                /\ pc' = "raised"
                /\ UNCHANGED << savings, annual_expenses, fire_numbers, fire_achieved >>
           ELSE /\ savings' = Append(savings, new_savings)
                /\ annual_expenses' = Append(annual_expenses, new_expense)
                /\ fire_numbers' = Append(fire_numbers, new_fire_number)
                /\ fire_achieved' =
                      Append(fire_achieved, RGeq(new_savings, new_fire_number))
                /\ UNCHANGED << pc, raised >>
    /\ UNCHANGED << inputs, annualized, retirement, annual_saving, years, age, fire_year >>

\* lines 181-194: the loop is over; find the first achieving year and return
FindFireYear ==
    /\ pc = "loop"
    /\ ~LoopContinues
    /\ fire_year' = IF Contains(fire_achieved, TRUE)
                    THEN Index(fire_achieved, TRUE)
                    ELSE None
    /\ pc' = "done"
    /\ UNCHANGED << raised, inputs, annualized, retirement, annual_saving, years,
                    age, savings, annual_expenses, fire_numbers, fire_achieved >>

\* lines 62-194 after the inputs are read
Calculate ==
    \/ Aggregate
    \/ RetirementNumber
    \/ ProjectionInit
    \/ ProjectionStep
    \/ FindFireYear

Next == ReadInputs \/ Calculate

NextUnchecked == ReadInputsUnchecked \/ Calculate

Spec == Init /\ [][Next]_vars

\* The script, once started, runs to its end.
FairSpec == Init /\ [][Next]_vars /\ WF_vars(Next)

\* The same script fed an swr the slider does not restrict.
SpecUnchecked == Init /\ [][NextUnchecked]_vars

TypeOK == pc \in {"start", "inputs", "aggregated", "retirement", "loop", "done", "raised"}

(* ------------------------- vocabulary of the claims ------------------- *)

\* The six cost categories: annualized amount and inflation rate percent.
Categories ==
    << [amount |-> annual_expense,   rate |-> expense_inflation],
       [amount |-> annual_trips,     rate |-> trip_inflation],
       [amount |-> car_annual,       rate |-> car_inflation],
       [amount |-> gadget_annual,    rate |-> gadget_inflation],
       [amount |-> dependent_annual, rate |-> dependent_inflation],
       [amount |-> misc_annual,      rate |-> misc_inflation] >>

Aggregated == pc \notin {"start", "inputs"}

RetirementComputed == retirement_annual_expenses # Unset

RECURSIVE IntPow(_, _)
IntPow(b, k) == IF k = 0 THEN 1 ELSE b * IntPow(b, k - 1)

\* sum of a_i over the categories
RECURSIVE SumAmounts(_)
SumAmounts(cats) ==
    IF cats = << >> THEN R(0)
    ELSE RAdd(Head(cats).amount, SumAmounts(Tail(cats)))

\* sum of a_i * r_i over the categories
RECURSIVE SumWeighted(_)
SumWeighted(cats) ==
    IF cats = << >> THEN R(0)
    ELSE RAdd(RMul(Head(cats).amount, R(Head(cats).rate)), SumWeighted(Tail(cats)))

\* sum of a_i * (1 + r_i/100)^t over the categories
RECURSIVE CompoundedSum(_, _)
CompoundedSum(cats, t) ==
    IF cats = << >> THEN R(0)
    ELSE RAdd(RMul(Head(cats).amount,
                   Frac(IntPow(100 + Head(cats).rate, t), IntPow(100, t))),
              CompoundedSum(Tail(cats), t))

\* total * (1 + weightedInflationRate/100)^t
Blended(t) ==
    RMul(total_annual_cost,
         RPow(RAdd(R(1), RDiv(weighted_inflation, R(100))), t))

NonUniformRates ==
    \E i, j \in 1..Len(Categories) : Categories[i].rate # Categories[j].rate

\* two categories that both cost something inflate at different rates
MixedRatesInUse ==
    \E i, j \in 1..Len(Categories) :
        /\ Categories[i].amount.n > 0
        /\ Categories[j].amount.n > 0
        /\ Categories[i].rate # Categories[j].rate

(* ------------------------------- claims ------------------------------- *)

\* C7: once the categories are aggregated, total_annual_cost is the sum of
\* the six annualized amounts; when that sum is positive the weighted
\* inflation rate times the sum equals the sum of amount * rate, and when the
\* sum is zero the weighted inflation rate is the default 4.
C7_Aggregation ==
    Aggregated =>
        /\ total_annual_cost = SumAmounts(Categories)
        /\ SumAmounts(Categories).n > 0 =>
              RMul(weighted_inflation, SumAmounts(Categories)) = SumWeighted(Categories)
        /\ SumAmounts(Categories).n = 0 => weighted_inflation = R(4)

\* C7 witness: a positive total whose blended rate is none of the integer rates.
C7_Witness ==
    /\ Aggregated
    /\ total_annual_cost.n > 0
    /\ weighted_inflation.d > 1

\* C8: every value calculate_future_expenses returned is the sum over the
\* categories of amount * (1 + rate/100)^t, each category with its own rate;
\* for t = 0 it is total_annual_cost.
C8_IndependentCompounding ==
    /\ RetirementComputed =>
          /\ retirement_annual_expenses =
                CompoundedSum(Categories, years_until_retirement)
          /\ years_until_retirement = 0 =>
                retirement_annual_expenses = total_annual_cost
    /\ \A i \in 2..Len(annual_expenses) :
          annual_expenses[i] = CompoundedSum(Categories, i - 1)

\* C8 witness: a projection over two or more years of categories in use
\* with different rates.
C8_Witness ==
    /\ pc = "done"
    /\ Len(annual_expenses) >= 3
    /\ MixedRatesInUse

\* C5 as stated: with non-uniform rates the per-category compounded sum
\* differs from the total compounded at the blended rate, for every t >= 0.
C5_AlwaysDiffers ==
    (RetirementComputed /\ NonUniformRates) =>
        retirement_annual_expenses # Blended(years_until_retirement)

\* C5 amended: when two categories with positive amounts have different
\* rates and t >= 2, the per-category compounded sum is strictly greater than
\* the total compounded at the blended rate; for t = 0 the two are equal.
C5_DiffersFromYearTwo ==
    RetirementComputed =>
        /\ (MixedRatesInUse /\ years_until_retirement >= 2) =>
              ~RGeq(Blended(years_until_retirement), retirement_annual_expenses)
        /\ years_until_retirement = 0 =>
              retirement_annual_expenses = Blended(0)

\* C5 witness: mixed rates in use, compounded over two or more years.
C5_Witness ==
    /\ RetirementComputed
    /\ MixedRatesInUse
    /\ years_until_retirement >= 2

\* annualContribution = monthlyIncome * 12 * (savingsRatePercent / 100)
AnnualContribution ==
    RMul(R(monthly_income * 12), Frac(savings_rate, 100))

\* fireNumber(current totalAnnualCost, swr), for swr > 0
CurrentFireNumber == RMul(total_annual_cost, Frac(100 * swr.d, swr.n))

ProjectionStarted == Len(fire_achieved) >= 1

\* C1 as stated: the point at offset 0 has savings = startingSavings,
\* requiredFireNumber = fireNumber(totalAnnualCost, swr) and
\* fireAchieved = (startingSavings >= requiredFireNumber).
C1_OffsetZero ==
    ProjectionStarted =>
        /\ savings[1] = R(current_savings)
        /\ fire_numbers[1] = CurrentFireNumber
        /\ fire_achieved[1] = RGeq(R(current_savings), fire_numbers[1])

\* C2: in the returned result fire_year, when present, is the smallest offset
\* whose point has fire_achieved true, and it is absent exactly when no
\* offset in 0..N has fire_achieved true.
C2_FirstAchieved ==
    pc = "done" =>
        /\ fire_year # None =>
              /\ fire_year \in 0..years_until_retirement
              /\ fire_achieved[fire_year + 1]
              /\ \A k \in 0..(fire_year - 1) : ~fire_achieved[k + 1]
        /\ fire_year = None <=>
              \A k \in 0..years_until_retirement : ~fire_achieved[k + 1]

\* C2 witness: FIRE is first achieved at offset 2 or later and holds again at
\* a later offset.
C2_Witness ==
    /\ pc = "done"
    /\ fire_year # None
    /\ fire_year >= 2
    /\ fire_year < years_until_retirement
    /\ fire_achieved[fire_year + 2]

\* C3 as stated: with horizon 0 the series has exactly one point and
\* fire_year is present iff startingSavings >= fireNumber(currentExpenses, swr).
C3_ZeroHorizon ==
    (pc = "done" /\ years_until_retirement = 0) =>
        /\ Len(savings) = 1
        /\ Len(fire_numbers) = 1
        /\ Len(fire_achieved) = 1
        /\ fire_year # None <=> RGeq(R(current_savings), CurrentFireNumber)

\* C6: with every inflation rate >= 0, requiredFireNumber is non-decreasing
\* in the offset over the whole series, the step from offset 0 included.
C6_MonotonicFireNumber ==
    (\A c \in 1..Len(Categories) : Categories[c].rate >= 0) =>
        \A i, j \in 1..Len(fire_numbers) :
            i <= j => RGeq(fire_numbers[j], fire_numbers[i])

\* C6 witness: a finished series of three or more points whose FIRE number
\* rose at every step.
C6_Witness ==
    /\ pc = "done"
    /\ Len(fire_numbers) >= 3
    /\ \A i \in 1..(Len(fire_numbers) - 1) :
          ~RGeq(fire_numbers[i], fire_numbers[i + 1])

\* C9: for every offset y in 1..N, savings(y) = savings(y-1) *
\* (1 + return/100) + annualContribution with the same contribution
\* monthlyIncome * 12 * savingsRate/100 at every offset, and
\* fireAchieved(y) = (savings(y) >= requiredFireNumber(y)).
C9_SavingsRecurrence ==
    /\ ProjectionStarted => annual_saving = AnnualContribution
    /\ \A i \in 2..Len(savings) :
          /\ savings[i] =
                RAdd(RMul(savings[i - 1], Frac(100 + annual_investment_return, 100)),
                     AnnualContribution)
          /\ fire_achieved[i] = RGeq(savings[i], fire_numbers[i])

\* C9 witness: two or more loop iterations from positive savings with a
\* positive contribution, FIRE achieved at one offset and not at another.
C9_Witness ==
    /\ Len(savings) >= 3
    /\ savings[1].n > 0
    /\ annual_saving.n > 0
    /\ \E i, j \in 2..Len(savings) : fire_achieved[i] /\ ~fire_achieved[j]

\* The returned lists hold one point per offset 0..N, in order.
FullSeries ==
    /\ Len(years) = years_until_retirement + 1
    /\ Len(age) = years_until_retirement + 1
    /\ Len(savings) = years_until_retirement + 1
    /\ Len(annual_expenses) = years_until_retirement + 1
    /\ Len(fire_numbers) = years_until_retirement + 1
    /\ Len(fire_achieved) = years_until_retirement + 1
    /\ \A i \in 1..(years_until_retirement + 1) :
          /\ years[i] = i - 1
          /\ age[i] = current_age + (i - 1)

\* C10: for every horizon N the projection runs to completion, and the
\* result it returns holds exactly one point per offset 0..N in increasing
\* order with age = startingAge + offset, also when FIRE was achieved at an
\* earlier offset.
C10_RunsToCompletion ==
    /\ <>(pc = "done")
    /\ [](pc = "done" => FullSeries)

\* C10 witness: a returned result with points after the first achieving offset.
C10_Witness ==
    /\ pc = "done"
    /\ fire_year # None
    /\ fire_year < years_until_retirement
    /\ Len(savings) = years_until_retirement + 1

====
